---------------------------- MODULE Spec2Model ----------------------------
(***************************************************************************)
(* State-machine model of src/data-structures/rate-limiter.ts:             *)
(*   RateLimiter (token bucket, in-process map, housekeeping timer),       *)
(*   SlidingWindowRateLimiter (per-key request log),                       *)
(*   DistributedRateLimiter (token bucket over an external keyed store).   *)
(* Time is the value of Date.now() in milliseconds.                        *)
(*                                                                         *)
(* RateLimiter.limit is a placeholder in the source (lines 56-65 hold only *)
(* the TODO steps and `throw new Error("Not implemented")`); its body is   *)
(* modelled from section 4.1 of the specification, on top of the source's  *)
(* refillTokens.  Every other operation is translated from the source.     *)
(***************************************************************************)
EXTENDS Integers, Sequences, FiniteSets, TLC

\* ------------------------------------------------------------------------
\* Bounds of the model
\* ------------------------------------------------------------------------
\* largest bucket capacity (config.maxTokens) drawn at construction
MaxTokensBound == 3
\* largest config.refillRate drawn at construction
MaxRateBound == 1
\* largest tokensRequested passed to RateLimiter.limit
MaxCost == 2
\* number of clock advances in one run
MaxSteps == 6
\* number of clock advances in one run of the distributed limiter
MaxDistSteps == 2
\* number of DistributedRateLimiter.limit calls started in one run
MaxCalls == 3
\* largest maxRequests of a sliding-window limiter drawn at construction
MaxRequestsBound == 2

\* ------------------------------------------------------------------------
\* Program constants
\* ------------------------------------------------------------------------
\* setInterval period of the housekeeping timer
CleanupPeriodMs == 60000
\* idle threshold of cleanup(): 5 * 60 * 1000
IdleThresholdMs == 300000
\* divisor turning milliseconds into the seconds of retryAfter
MsPerSecond == 1000

Keys == {"alice", "bob"}
\* the key whose history the recorded runs follow (the keys are interchangeable)
Tracked == "alice"
Procs == {"p1", "p2"}
\* amounts (ms) by which the clock advances in one step
Advances == {60000}
\* config.refillInterval values drawn at construction (two clock steps, so
\* that one step is a partial interval)
RefillIntervals == {120000}
\* config.refillInterval values of the distributed limiter (one clock step,
\* so that the store's time-to-live of two intervals runs out in two steps)
DistRefillIntervals == {60000}
\* a config.refillInterval longer than the idle threshold of cleanup()
SlowRefillIntervals == {480000}
\* windowSize values drawn at construction
WindowSizes == {120000}
Costs == 1..MaxCost

\* an absent map entry, store entry or pending read
None == [none |-> TRUE]
\* an optional field is a set of at most one value; retryAfter left out
NoRetry == {}

VARIABLES
  kind,        \* which limiter class was constructed: "tb", "sw", "dist"
  config,      \* RateLimitConfig / (windowSize, maxRequests)
  now,         \* Date.now()
  steps,       \* clock advances taken so far
  buckets,     \* RateLimiter.buckets : key -> TokenBucket or None
  cleanupInterval, \* the setInterval handle: [armed, due]
  windows,     \* SlidingWindowRateLimiter.windows : key -> WindowEntry[]
  store,       \* the external RateLimitStore : store key -> entry or None
  calls,       \* the DistributedRateLimiter.limit calls of each caller
  result,      \* what the last call returned or threw, NoResult once the
               \* clock has moved on or an operation returning nothing ran
  started,     \* bookkeeping: DistributedRateLimiter.limit calls started
  obs          \* history kept for the property under check (None if none)

\* the program's state
progVars == <<kind, config, now, steps, buckets, cleanupInterval, windows,
              store, calls, result>>

\* ------------------------------------------------------------------------
\* Arithmetic helpers
\* ------------------------------------------------------------------------
Min(a, b) == IF a <= b THEN a ELSE b

\* Math.floor(a / b) for b > 0
FloorDiv(a, b) == a \div b

\* Math.ceil(a / b) for b > 0
CeilDiv(a, b) == -((-a) \div b)

\* ------------------------------------------------------------------------
\* RateLimiter (token bucket)
\* ------------------------------------------------------------------------
TokenBucket(t, l) == [tokens |-> t, lastRefill |-> l]

\* refillTokens without the Math.min cap
refillTokens_uncapped(bucket, t) ==
  LET timePassed == t - bucket.lastRefill
      intervalsElapsed == FloorDiv(timePassed, config.refillInterval)
  IN  IF intervalsElapsed > 0
      THEN TokenBucket(bucket.tokens + intervalsElapsed * config.refillRate, t)
      ELSE bucket

\* refillTokens without `bucket.lastRefill = now`
refillTokens_stale(bucket, t) ==
  LET timePassed == t - bucket.lastRefill
      intervalsElapsed == FloorDiv(timePassed, config.refillInterval)
  IN  IF intervalsElapsed > 0
      THEN TokenBucket(Min(config.maxTokens,
                           bucket.tokens + intervalsElapsed * config.refillRate),
                       bucket.lastRefill)
      ELSE bucket

\* refillTokens setting the tokens to the refill instead of adding it
refillTokens_replacing(bucket, t) ==
  LET timePassed == t - bucket.lastRefill
      intervalsElapsed == FloorDiv(timePassed, config.refillInterval)
  IN  IF intervalsElapsed > 0
      THEN TokenBucket(Min(config.maxTokens, intervalsElapsed * config.refillRate), t)
      ELSE bucket

\* refillTokens(bucket) at Date.now() = t: the bucket after the call
refillTokens(bucket, t) ==
  LET timePassed == t - bucket.lastRefill
      intervalsElapsed == FloorDiv(timePassed, config.refillInterval)
  IN  IF intervalsElapsed > 0
      THEN TokenBucket(Min(config.maxTokens,
                           bucket.tokens + intervalsElapsed * config.refillRate), t)
      ELSE bucket

Result(op, k, a, rem, reset, retry) ==
  [op |-> op, key |-> k, threw |-> FALSE, allowed |-> a, remaining |-> rem,
   resetAt |-> reset, retryAfter |-> retry]

NoResult == [op |-> "none", key |-> "", threw |-> FALSE, allowed |-> FALSE,
             remaining |-> 0, resetAt |-> 0, retryAfter |-> NoRetry]

\* a limit(k) call that threw, or whose promise rejected
Threw(k) == [op |-> "limit", key |-> k, threw |-> TRUE, allowed |-> FALSE,
             remaining |-> 0, resetAt |-> 0, retryAfter |-> NoRetry]

\* step 1 of limit on the bucket map m: the stored bucket, or a full one
\* created at time t
getOrCreate(m, k, t) ==
  IF m[k] = None THEN TokenBucket(config.maxTokens, t) ELSE m[k]

\* steps 2-3 of limit: the bucket left in the map
limitBucket(m, k, cost, t) ==
  LET b == refillTokens(getOrCreate(m, k, t), t)
  IN  IF b.tokens >= cost THEN TokenBucket(b.tokens - cost, b.lastRefill) ELSE b

\* limit reporting the tokens before the subtraction
limitResult_unsubtracted(m, k, cost, t) ==
  LET b0 == getOrCreate(m, k, t)
      elapsed == t - b0.lastRefill
      b == refillTokens(b0, t)
  IN  IF b.tokens >= cost
      THEN Result("limit", k, TRUE, b.tokens,
                  b.lastRefill + config.refillInterval, NoRetry)
      ELSE Result("limit", k, FALSE, 0, b.lastRefill + config.refillInterval,
                  {CeilDiv(config.refillInterval - elapsed, MsPerSecond)})

\* steps 2-3 of limit: the RateLimitResult returned
limitResult(m, k, cost, t) ==
  LET b0 == getOrCreate(m, k, t)
      elapsed == t - b0.lastRefill
      b == refillTokens(b0, t)
  IN  IF b.tokens >= cost
      THEN Result("limit", k, TRUE, b.tokens - cost,
                  b.lastRefill + config.refillInterval, NoRetry)
      ELSE Result("limit", k, FALSE, 0, b.lastRefill + config.refillInterval,
                  {CeilDiv(config.refillInterval - elapsed, MsPerSecond)})

RateLimiter_limit(k, cost) ==
  /\ kind = "tb"
  /\ buckets' = [buckets EXCEPT ![k] = limitBucket(buckets, k, cost, now)]
  /\ result' = limitResult(buckets, k, cost, now)
  /\ UNCHANGED <<kind, config, now, steps, cleanupInterval, windows, store, calls>>

\* getStatus refilling the stored bucket itself instead of a copy
getStatusBuckets_inplace(k, t) ==
  IF buckets[k] = None THEN buckets
  ELSE [buckets EXCEPT ![k] = refillTokens(@, t)]

\* getStatus: the map after the call (refillTokens ran on the copy {...bucket})
getStatusBuckets(k, t) == buckets

\* getStatus reporting an unknown key as an empty bucket
getStatus_unknownEmpty(k, t) ==
  IF buckets[k] = None
  THEN Result("status", k, FALSE, 0, t + config.refillInterval, NoRetry)
  ELSE LET tempBucket == refillTokens(buckets[k], t)
       IN  Result("status", k, tempBucket.tokens >= 1, tempBucket.tokens,
                  buckets[k].lastRefill + config.refillInterval, NoRetry)

\* getStatus reporting the stored bucket without the refill
getStatus_unrefilled(k, t) ==
  IF buckets[k] = None
  THEN Result("status", k, TRUE, config.maxTokens, t + config.refillInterval, NoRetry)
  ELSE Result("status", k, buckets[k].tokens >= 1, buckets[k].tokens,
              buckets[k].lastRefill + config.refillInterval, NoRetry)

\* getStatus: the RateLimitResult returned
getStatus(k, t) ==
  IF buckets[k] = None
  THEN Result("status", k, TRUE, config.maxTokens, t + config.refillInterval, NoRetry)
  ELSE LET tempBucket == refillTokens(buckets[k], t)
       IN  Result("status", k, tempBucket.tokens >= 1, tempBucket.tokens,
                  buckets[k].lastRefill + config.refillInterval, NoRetry)

RateLimiter_getStatus(k) ==
  /\ kind = "tb"
  /\ buckets' = getStatusBuckets(k, now)
  /\ result' = getStatus(k, now)
  /\ UNCHANGED <<kind, config, now, steps, cleanupInterval, windows, store, calls>>

\* reset leaving the bucket in the map
reset_kept(k) == buckets

\* reset(key): this.buckets.delete(key)
reset(k) == [buckets EXCEPT ![k] = None]

RateLimiter_reset(k) ==
  /\ kind = "tb"
  /\ buckets' = reset(k)
  /\ result' = NoResult
  /\ UNCHANGED <<kind, config, now, steps, cleanupInterval, windows, store, calls>>

\* cleanup() evicting a bucket exactly five minutes old as well
cleanup_atThreshold(t) ==
  LET fiveMinutesAgo == t - IdleThresholdMs
  IN  [k \in Keys |->
         IF buckets[k] # None /\ buckets[k].lastRefill <= fiveMinutesAgo
         THEN None ELSE buckets[k]]

\* cleanup() at Date.now() = t: the map after the sweep
cleanup(t) ==
  LET fiveMinutesAgo == t - IdleThresholdMs
  IN  [k \in Keys |->
         IF buckets[k] # None /\ buckets[k].lastRefill < fiveMinutesAgo
         THEN None ELSE buckets[k]]

\* the setInterval callback, fired when the timer is due
RateLimiter_cleanup ==
  /\ kind = "tb"
  /\ cleanupInterval.armed
  /\ now >= cleanupInterval.due
  /\ buckets' = cleanup(now)
  /\ cleanupInterval' = [cleanupInterval EXCEPT !.due = @ + CleanupPeriodMs]
  /\ result' = NoResult
  /\ UNCHANGED <<kind, config, now, steps, windows, store, calls>>

\* destroy without the clearInterval
RateLimiter_destroy_armed ==
  /\ kind = "tb"
  /\ buckets' = [k \in Keys |-> None]
  /\ result' = NoResult
  /\ UNCHANGED <<kind, config, now, steps, cleanupInterval, windows, store, calls>>

\* destroy(): clearInterval, buckets.clear()
RateLimiter_destroy ==
  /\ kind = "tb"
  /\ cleanupInterval' = [cleanupInterval EXCEPT !.armed = FALSE]
  /\ buckets' = [k \in Keys |-> None]
  /\ result' = NoResult
  /\ UNCHANGED <<kind, config, now, steps, windows, store, calls>>

\* ------------------------------------------------------------------------
\* SlidingWindowRateLimiter
\* ------------------------------------------------------------------------
WindowEntry(t, c) == [timestamp |-> t, count |-> c]

\* the filter keeping the entry at windowStart itself
filterEntries_inclusive(entries, windowStart) ==
  LET keep(e) == e.timestamp >= windowStart
  IN  SelectSeq(entries, keep)

\* entries.filter(entry => entry.timestamp > windowStart)
filterEntries(entries, windowStart) ==
  LET keep(e) == e.timestamp > windowStart
  IN  SelectSeq(entries, keep)

\* entries.reduce((sum, entry) => sum + entry.count, 0)
RECURSIVE totalRequests(_)
totalRequests(entries) ==
  IF entries = <<>> THEN 0
  ELSE Head(entries).count + totalRequests(Tail(entries))

\* the deny branch taken one request late
windowFull_late(total) == total > config.maxRequests

\* the condition of the deny branch
windowFull(total) == total >= config.maxRequests

\* limit appending the entry before the deny check, so also when denying
slidingLog_logsDenied(k, t) ==
  Append(filterEntries(windows[k], t - config.windowSize), WindowEntry(t, 1))

\* limit storing the whole log with the new entry, old entries included
slidingLog_unpruned(k, t) ==
  LET entries == filterEntries(windows[k], t - config.windowSize)
  IN  IF windowFull(totalRequests(entries))
      THEN windows[k]
      ELSE Append(windows[k], WindowEntry(t, 1))

\* limit(key) at Date.now() = t: the log left in the map
slidingLog(k, t) ==
  LET entries == filterEntries(windows[k], t - config.windowSize)
  IN  IF windowFull(totalRequests(entries))
      THEN windows[k]
      ELSE Append(entries, WindowEntry(t, 1))

\* limit taking the reset time from the newest entry instead of entries[0]
slidingResult_newest(k, t) ==
  LET entries == filterEntries(windows[k], t - config.windowSize)
      total == totalRequests(entries)
  IN  IF windowFull(total)
      THEN IF entries = <<>>
           THEN Threw(k)
           ELSE LET newestEntry == entries[Len(entries)]
                IN  Result("limit", k, FALSE, 0,
                           newestEntry.timestamp + config.windowSize,
                           {CeilDiv(newestEntry.timestamp + config.windowSize - t,
                                    MsPerSecond)})
      ELSE Result("limit", k, TRUE, config.maxRequests - total - 1,
                  t + config.windowSize, NoRetry)

\* limit(key) at Date.now() = t: the RateLimitResult returned
slidingResult(k, t) ==
  LET entries == filterEntries(windows[k], t - config.windowSize)
      total == totalRequests(entries)
  IN  IF windowFull(total)
      THEN IF entries = <<>>
           THEN Threw(k)  \* entries[0] is undefined: oldestEntry.timestamp throws
           ELSE LET oldestEntry == entries[1]
                IN  Result("limit", k, FALSE, 0,
                           oldestEntry.timestamp + config.windowSize,
                           {CeilDiv(oldestEntry.timestamp + config.windowSize - t,
                                    MsPerSecond)})
      ELSE Result("limit", k, TRUE, config.maxRequests - total - 1,
                  t + config.windowSize, NoRetry)

SlidingWindowRateLimiter_limit(k) ==
  /\ kind = "sw"
  /\ windows' = [windows EXCEPT ![k] = slidingLog(k, now)]
  /\ result' = slidingResult(k, now)
  /\ UNCHANGED <<kind, config, now, steps, buckets, cleanupInterval, store, calls>>

\* ------------------------------------------------------------------------
\* DistributedRateLimiter over a RateLimitStore
\* ------------------------------------------------------------------------
\* a store key that leaves the caller's key out
bucketKey_shared(k) == <<"ratelimit:", "">>

\* `ratelimit:${key}`
bucketKey(k) == <<"ratelimit:", k>>
StoreKeys == {bucketKey(k) : k \in Keys}

\* JSON.stringify(bucket) / JSON.parse(data) of a TokenBucket
JSONstringify(b) == [json |-> <<"tokens", b.tokens, "lastRefill", b.lastRefill>>]
JSONparse(data) == [tokens |-> data.json[2], lastRefill |-> data.json[4]]

\* store.get(key) served at time t: the value, or None (null) when the key
\* is absent or its time-to-live has run out
storeGet(sk, t) ==
  IF store[sk] # None /\ t < store[sk].expiresAt THEN store[sk].value ELSE None

\* store.set(key, value, expiryMs) served at time t
storeSet(sk, value, expiryMs, t) ==
  [store EXCEPT ![sk] = [value |-> value, expiresAt |-> t + expiryMs]]

\* the expiry passed to store.set
bucketTtl == config.refillInterval * 2

\* limit() starting from an empty bucket when the store has none
distLoad_empty(data, t) ==
  IF data # None THEN JSONparse(data) ELSE TokenBucket(0, t)

\* the bucket limit() starts from: parsed from the store, or a full one
distLoad(data, t) ==
  IF data # None THEN JSONparse(data) ELSE TokenBucket(config.maxTokens, t)

\* the inlined refill of DistributedRateLimiter.limit
distRefill(bucket, t) ==
  LET timePassed == t - bucket.lastRefill
      intervalsElapsed == FloorDiv(timePassed, config.refillInterval)
  IN  IF intervalsElapsed > 0
      THEN TokenBucket(Min(config.maxTokens,
                           bucket.tokens + intervalsElapsed * config.refillRate), t)
      ELSE bucket

\* the consume branch taken on an empty bucket as well
distHasToken_empty(bucket) == bucket.tokens >= 0

\* the check of the consume branch
distHasToken(bucket) == bucket.tokens >= 1

\* limit() reporting the tokens before `bucket.tokens -= 1`
distResult_unsubtracted(k, data, t) ==
  LET b0 == distLoad(data, t)
      timePassed == t - b0.lastRefill
      b == distRefill(b0, t)
  IN  IF distHasToken(b)
      THEN Result("limit", k, TRUE, b.tokens,
                  b.lastRefill + config.refillInterval, NoRetry)
      ELSE Result("limit", k, FALSE, 0, b.lastRefill + config.refillInterval,
                  {CeilDiv(config.refillInterval - timePassed, MsPerSecond)})

\* limit() reporting the time passed since the refill as retryAfter
distResult_elapsed(k, data, t) ==
  LET b0 == distLoad(data, t)
      timePassed == t - b0.lastRefill
      b == distRefill(b0, t)
  IN  IF distHasToken(b)
      THEN Result("limit", k, TRUE, b.tokens - 1,
                  b.lastRefill + config.refillInterval, NoRetry)
      ELSE Result("limit", k, FALSE, 0, b.lastRefill + config.refillInterval,
                  {CeilDiv(timePassed, MsPerSecond)})

\* the RateLimitResult of limit(), from the data read and the time t taken
\* at the start of the call
distResult(k, data, t) ==
  LET b0 == distLoad(data, t)
      timePassed == t - b0.lastRefill
      b == distRefill(b0, t)
  IN  IF distHasToken(b)
      THEN Result("limit", k, TRUE, b.tokens - 1,
                  b.lastRefill + config.refillInterval, NoRetry)
      ELSE Result("limit", k, FALSE, 0, b.lastRefill + config.refillInterval,
                  {CeilDiv(config.refillInterval - timePassed, MsPerSecond)})

\* the bucket handed to store.set in the consume branch
distConsumed(data, t) ==
  LET b == distRefill(distLoad(data, t), t)
  IN  TokenBucket(b.tokens - 1, b.lastRefill)

\* a caller with no limit() call in flight
IdleCall == [pc |-> "idle", key |-> "", now |-> 0, read |-> None]

\* limit(key) is called: Date.now() is taken and store.get is issued
Dist_call(p, k) ==
  /\ kind = "dist"
  /\ calls[p].pc = "idle"
  /\ calls' = [calls EXCEPT ![p] = [pc |-> "get", key |-> k, now |-> now,
                                    read |-> None]]
  /\ UNCHANGED <<kind, config, now, steps, buckets, cleanupInterval, windows,
                 store, result>>

\* the store answers the get; limit() runs on to store.set (consume branch)
\* or returns the denial
Dist_get(p) ==
  /\ kind = "dist"
  /\ calls[p].pc = "get"
  /\ LET c == calls[p]
         data == storeGet(bucketKey(c.key), now)
         r == distResult(c.key, data, c.now)
     IN  IF r.allowed
         THEN /\ calls' = [calls EXCEPT ![p] = [c EXCEPT !.pc = "set", !.read = data]]
              /\ UNCHANGED result
         ELSE /\ calls' = [calls EXCEPT ![p] = IdleCall]
              /\ result' = r
  /\ UNCHANGED <<kind, config, now, steps, buckets, cleanupInterval, windows,
                 store>>

\* limit() of the second instance keeping the consumed bucket to itself
\* instead of writing it to the shared store
Dist_set_private(p) ==
  /\ kind = "dist"
  /\ calls[p].pc = "set"
  /\ LET c == calls[p]
     IN  /\ store' = IF p = "p1"
                     THEN storeSet(bucketKey(c.key),
                                   JSONstringify(distConsumed(c.read, c.now)),
                                   bucketTtl, now)
                     ELSE store
         /\ result' = distResult(c.key, c.read, c.now)
  /\ calls' = [calls EXCEPT ![p] = IdleCall]
  /\ UNCHANGED <<kind, config, now, steps, buckets, cleanupInterval, windows>>

\* the store serves the set; limit() returns the allowed result
Dist_set(p) ==
  /\ kind = "dist"
  /\ calls[p].pc = "set"
  /\ LET c == calls[p]
     IN  /\ store' = storeSet(bucketKey(c.key),
                              JSONstringify(distConsumed(c.read, c.now)),
                              bucketTtl, now)
         /\ result' = distResult(c.key, c.read, c.now)
  /\ calls' = [calls EXCEPT ![p] = IdleCall]
  /\ UNCHANGED <<kind, config, now, steps, buckets, cleanupInterval, windows>>

\* store.get or store.set rejects: limit() has no try/catch, so the promise
\* it returned rejects
Dist_storeFails(p) ==
  /\ kind = "dist"
  /\ calls[p].pc \in {"get", "set"}
  /\ result' = Threw(calls[p].key)
  /\ calls' = [calls EXCEPT ![p] = IdleCall]
  /\ UNCHANGED <<kind, config, now, steps, buckets, cleanupInterval, windows,
                 store>>

\* ------------------------------------------------------------------------
\* The clock
\* ------------------------------------------------------------------------
\* time passes by d ms; a due housekeeping timer fires before time passes it
ClockAdvance(d) ==
  /\ steps < (IF kind = "dist" THEN MaxDistSteps ELSE MaxSteps)
  /\ cleanupInterval.armed => now + d <= cleanupInterval.due
  /\ now' = now + d
  /\ steps' = steps + 1
  /\ result' = NoResult
  /\ UNCHANGED <<kind, config, buckets, cleanupInterval, windows, store, calls>>

\* ------------------------------------------------------------------------
\* Construction and the next-state relation
\* ------------------------------------------------------------------------
TokenBucketConfigs ==
  [maxTokens : 1..MaxTokensBound, refillRate : 1..MaxRateBound,
   refillInterval : RefillIntervals]

DistConfigs ==
  [maxTokens : 1..MaxTokensBound, refillRate : 1..MaxRateBound,
   refillInterval : DistRefillIntervals]

SlidingWindowConfigs ==
  [windowSize : WindowSizes, maxRequests : 1..MaxRequestsBound]

\* the state right after `new RateLimiter(config)` (kd = "tb"),
\* `new SlidingWindowRateLimiter(windowSize, maxRequests)` (kd = "sw") or
\* `new DistributedRateLimiter(store, config)` (kd = "dist") at time 0
InitWith(kd, configs) ==
  /\ kind = kd
  /\ config \in configs
  /\ now = 0
  /\ steps = 0
  /\ buckets = [k \in Keys |-> None]
  /\ cleanupInterval = [armed |-> kd = "tb", due |-> CleanupPeriodMs]
  /\ windows = [k \in Keys |-> <<>>]
  /\ store = [sk \in StoreKeys |-> None]
  /\ calls = [p \in Procs |-> IdleCall]
  /\ result = NoResult

\* construction with a configuration of positive values
InitProg(kd) ==
  InitWith(kd, CASE kd = "tb" -> TokenBucketConfigs
                 [] kd = "sw" -> SlidingWindowConfigs
                 [] kd = "dist" -> DistConfigs)

aux == <<started, obs>>
vars == <<progVars, aux>>

Init ==
  /\ \E kd \in {"tb", "sw", "dist"} : InitProg(kd)
  /\ started = 0
  /\ obs = None

Next ==
  \/ \E k \in Keys, c \in Costs : RateLimiter_limit(k, c) /\ UNCHANGED aux
  \/ \E k \in Keys : RateLimiter_getStatus(k) /\ UNCHANGED aux
  \/ \E k \in Keys : RateLimiter_reset(k) /\ UNCHANGED aux
  \/ RateLimiter_cleanup /\ UNCHANGED aux
  \/ RateLimiter_destroy /\ UNCHANGED aux
  \/ \E k \in Keys : SlidingWindowRateLimiter_limit(k) /\ UNCHANGED aux
  \/ \E p \in Procs, k \in Keys :
       /\ started < MaxCalls
       /\ Dist_call(p, k)
       /\ started' = started + 1
       /\ UNCHANGED obs
  \/ \E p \in Procs : Dist_get(p) /\ UNCHANGED aux
  \/ \E p \in Procs : Dist_set(p) /\ UNCHANGED aux
  \/ \E p \in Procs : Dist_storeFails(p) /\ UNCHANGED aux
  \/ \E d \in Advances : ClockAdvance(d) /\ UNCHANGED aux

Spec == Init /\ [][Next]_vars

\* ------------------------------------------------------------------------
\* Runs of one RateLimiter with a history kept in obs: each operation sets
\* obs to the value given for it
\* ------------------------------------------------------------------------
TokenBucketRun(OnLimit(_, _), OnStatus(_), OnReset(_), onCleanup, onDestroy, onAdvance) ==
  \/ \E k \in Keys, c \in Costs :
       RateLimiter_limit(k, c) /\ obs' = OnLimit(k, c) /\ UNCHANGED started
  \/ \E k \in Keys :
       RateLimiter_getStatus(k) /\ obs' = OnStatus(k) /\ UNCHANGED started
  \/ \E k \in Keys :
       RateLimiter_reset(k) /\ obs' = OnReset(k) /\ UNCHANGED started
  \/ RateLimiter_cleanup /\ obs' = onCleanup /\ UNCHANGED started
  \/ RateLimiter_destroy /\ obs' = onDestroy /\ UNCHANGED started
  \/ \E d \in Advances :
       ClockAdvance(d) /\ obs' = onAdvance /\ UNCHANGED started

\* ------------------------------------------------------------------------
\* C2: burst capacity. For a key with no bucket yet, consecutive limit(key)
\* calls of cost 1 with no clock advance are allowed exactly maxTokens times,
\* the i-th returning remaining = maxTokens - i, and the next one is denied.
\* obs[k] counts the calls of such a run on k (0: no run), up to maxTokens + 1.
\* ------------------------------------------------------------------------
BurstOnLimit(k, c) ==
  [obs EXCEPT ![k] = IF c = 1 /\ buckets[k] = None THEN 1
                     ELSE IF c = 1 /\ @ > 0 THEN Min(@ + 1, config.maxTokens + 1)
                     ELSE 0]
BurstKeep(k) == obs
BurstEnd(k) == [obs EXCEPT ![k] = 0]
BurstEndAll == [k \in Keys |-> 0]

InitBurst == InitProg("tb") /\ started = 0 /\ obs = BurstEndAll

NextBurst ==
  TokenBucketRun(BurstOnLimit, BurstKeep, BurstEnd, BurstEndAll, BurstEndAll, BurstEndAll)

SpecBurst == InitBurst /\ [][NextBurst]_vars

RecentAllowed(k, t) ==
  LET recent(x) == x > t - config.windowSize
  IN  SelectSeq(obs[k], recent)

InitWindow ==
  /\ InitProg("sw")
  /\ started = 0
  /\ obs = [k \in Keys |-> <<>>]

NextWindow ==
  \/ \E k \in Keys :
       /\ SlidingWindowRateLimiter_limit(k)
       /\ obs' = [obs EXCEPT ![k] = IF slidingResult(k, now).allowed
                                    THEN Append(RecentAllowed(k, now), now)
                                    ELSE RecentAllowed(k, now)]
       /\ UNCHANGED started
  \/ \E d \in Advances : ClockAdvance(d) /\ UNCHANGED aux

SpecWindow == InitWindow /\ [][NextWindow]_vars

\* the allowed calls on k with call time in (t - windowSize, t]
AllowedIn(k, t) ==
  {i \in DOMAIN obs[k] : obs[k][i] > t - config.windowSize /\ obs[k][i] <= t}

\* C3: for every key and every time t (each allowed call time and now), at
\* most maxRequests allowed calls have their call time in (t - windowSize, t].
C3_SlidingWindowRate ==
  \A k \in Keys :
    \A t \in {obs[k][i] : i \in DOMAIN obs[k]} \cup {now} :
      Cardinality(AllowedIn(k, t)) <= config.maxRequests

\* a window that is full again after its first entries left it: a call was
\* allowed at a later time and the next one denied
C3_Witness ==
  \E k \in Keys :
    /\ config.maxRequests = MaxRequestsBound
    /\ Cardinality(AllowedIn(k, now)) = config.maxRequests
    /\ obs[k][1] > 0
    /\ result.key = k /\ ~result.allowed /\ (\E r \in result.retryAfter : r > 0)

\* ------------------------------------------------------------------------
\* C1: capacity invariant. After any sequence of limit, status, reset,
\* housekeeping sweeps and clock advances, every bucket in the local map and
\* every bucket the limiter wrote to the store has 0 <= tokens <= maxTokens.
\* ------------------------------------------------------------------------
C1_CapacityInvariant ==
  /\ \A k \in Keys :
       buckets[k] # None =>
         /\ 0 <= buckets[k].tokens
         /\ buckets[k].tokens <= config.maxTokens
  /\ \A sk \in StoreKeys :
       store[sk] # None =>
         /\ 0 <= JSONparse(store[sk].value).tokens
         /\ JSONparse(store[sk].value).tokens <= config.maxTokens

\* both bounds are attained at once, after a sweep ran: one bucket is drained
\* and another, refilled at a later time, is full
C1_Witness ==
  \E a \in Keys, b \in Keys :
    /\ buckets[a] # None /\ buckets[b] # None
    /\ buckets[a].tokens = 0
    /\ buckets[b].tokens = config.maxTokens
    /\ buckets[b].lastRefill > buckets[a].lastRefill
    /\ cleanupInterval.due > CleanupPeriodMs

\* ------------------------------------------------------------------------
\* C5: local atomicity. limit() has no await between its refill and consume
\* steps, so calls started together (no clock advance between them) run one
\* after the other, and the total cost of the allowed calls of such a batch
\* on a key never exceeds the tokens available before the batch.
\* obs.batch is the batch on the key obs.key since the clock last moved: the
\* tokens available at its first call, the cost allowed so far and the
\* number of calls (up to 3).
\* ------------------------------------------------------------------------
BatchOnLimit(k, c) ==
  LET prev == IF obs.batch = None
              THEN [avail |-> refillTokens(getOrCreate(buckets, k, now), now).tokens,
                    used |-> 0, n |-> 0]
              ELSE obs.batch
  IN  IF k # obs.key THEN obs
      ELSE [obs EXCEPT !.batch =
              [avail |-> prev.avail,
               used |-> prev.used
                          + (IF limitResult(buckets, k, c, now).allowed THEN c ELSE 0),
               n |-> Min(prev.n + 1, 3)]]
BatchKeep(k) == obs
BatchEnd(k) == IF k # obs.key THEN obs ELSE [obs EXCEPT !.batch = None]
BatchEndAll == [obs EXCEPT !.batch = None]

InitBatch ==
  /\ InitProg("tb")
  /\ started = 0
  /\ obs = [key |-> Tracked, batch |-> None]

NextBatch ==
  TokenBucketRun(BatchOnLimit, BatchKeep, BatchEnd, BatchEndAll, BatchEndAll, BatchEndAll)

SpecBatch == InitBatch /\ [][NextBatch]_vars

InitRace ==
  /\ InitProg("dist")
  /\ started = 0
  /\ obs = [p \in Procs |-> None]

NextRace ==
  \/ \E p \in Procs, k \in Keys :
       /\ started < MaxCalls
       /\ Dist_call(p, k)
       /\ started' = started + 1
       /\ obs' = [obs EXCEPT ![p] = None]
  \/ \E p \in Procs :
       /\ Dist_get(p)
       /\ LET c == calls[p]
              data == storeGet(bucketKey(c.key), now)
              r == distResult(c.key, data, c.now)
          IN  obs' = [obs EXCEPT ![p] =
                        [key |-> c.key, read |-> data, at |-> c.now, res |-> r,
                         raced |-> \E q \in Procs \ {p} :
                                     calls[q].pc = "set" /\ calls[q].key = c.key,
                         done |-> ~r.allowed]]
       /\ UNCHANGED started
  \/ \E p \in Procs :
       /\ Dist_set(p)
       /\ obs' = [obs EXCEPT ![p] = [@ EXCEPT !.done = TRUE]]
       /\ UNCHANGED started
  \/ \E p \in Procs :
       /\ Dist_storeFails(p)
       /\ obs' = [obs EXCEPT ![p] = None]
       /\ UNCHANGED started
  \/ \E d \in Advances : ClockAdvance(d) /\ UNCHANGED aux

SpecRace == InitRace /\ [][NextRace]_vars

\* the tokens the call of obs[p] found: the bucket it read, refilled to its
\* call time
TokensRead(p) == distRefill(distLoad(obs[p].read, obs[p].at), obs[p].at).tokens

\* C6: two limit(key) calls on one key that read the same bucket, the second
\* read coming before the first set, are both decided by that stale bucket:
\* when it held a token both return allowed = true with the same remaining,
\* so one token is handed out twice.
C6_LostUpdate ==
  \A p \in Procs, q \in Procs :
    ( /\ p # q
      /\ obs[p] # None /\ obs[q] # None
      /\ obs[p].done /\ obs[q].done
      /\ obs[p].key = obs[q].key
      /\ obs[p].raced
      /\ obs[p].read = obs[q].read /\ obs[p].at = obs[q].at
      /\ TokensRead(p) >= 1 )
    => /\ obs[p].res.allowed /\ obs[q].res.allowed
       /\ obs[p].res.remaining = TokensRead(p) - 1
       /\ obs[q].res.remaining = TokensRead(p) - 1

\* the lost update: both calls read the same entry holding one token, no
\* refill was due, the second read came before the first set, and both
\* returned allowed = true
C6_Witness ==
  \E p \in Procs, q \in Procs :
    /\ p # q
    /\ obs[p] # None /\ obs[q] # None
    /\ obs[p].done /\ obs[q].done
    /\ obs[p].key = obs[q].key
    /\ obs[p].raced
    /\ obs[p].read # None /\ obs[p].read = obs[q].read
    /\ TokensRead(p) = 1 /\ TokensRead(q) = 1
    /\ obs[p].res.allowed /\ obs[q].res.allowed
    /\ JSONparse(store[bucketKey(obs[p].key)].value).tokens = 0

\* ------------------------------------------------------------------------
\* C7: distributed equals local under sequential use. For non-overlapping
\* limit(key) calls at non-decreasing times against a store that honours the
\* time-to-live, DistributedRateLimiter.limit(key) returns the same allowed
\* and remaining as the token-bucket limit(key, 1) with the same
\* configuration and call times.
\* One caller makes the calls and the clock stands still while a call is in
\* flight; obs.ref is the bucket map of the token-bucket limiter given the
\* same calls and obs.res its last result.
\* ------------------------------------------------------------------------
InitSequential ==
  /\ InitProg("dist")
  /\ started = 0
  /\ obs = [ref |-> [k \in Keys |-> None], res |-> NoResult]

NextSequential ==
  \/ \E k \in Keys :
       /\ Dist_call("p1", k)
       /\ obs' = [ref |-> [obs.ref EXCEPT ![k] = limitBucket(obs.ref, k, 1, now)],
                  res |-> limitResult(obs.ref, k, 1, now)]
       /\ UNCHANGED started
  \/ Dist_get("p1") /\ UNCHANGED aux
  \/ Dist_set("p1") /\ UNCHANGED aux
  \/ \E d \in Advances :
       calls["p1"].pc = "idle" /\ ClockAdvance(d) /\ UNCHANGED aux

SpecSequential == InitSequential /\ [][NextSequential]_vars

\* C7: every sequential DistributedRateLimiter.limit(key) call returns the
\* allowed and remaining of the token-bucket limit(key, 1) given the same
\* calls at the same times.
C7_DistributedEqualsLocal ==
  (calls["p1"].pc = "idle" /\ result.op = "limit") =>
    /\ result.allowed = obs.res.allowed
    /\ result.remaining = obs.res.remaining

\* ------------------------------------------------------------------------
\* C4: key independence. A limit, status or reset call on key a (for the
\* distributed limiter: any step of a limit(a) call) leaves the stored state
\* of every other key b unchanged, and leaves unchanged what a call on b
\* would return.
\* ------------------------------------------------------------------------
\* some step of an operation on key a
OpOn(a) ==
  \/ \E c \in Costs : RateLimiter_limit(a, c)
  \/ RateLimiter_getStatus(a)
  \/ RateLimiter_reset(a)
  \/ SlidingWindowRateLimiter_limit(a)
  \/ \E p \in Procs : Dist_call(p, a)
  \/ \E p \in Procs : calls[p].key = a /\ (Dist_get(p) \/ Dist_set(p) \/ Dist_storeFails(p))

\* the stored state of key b
KeyState(b) == <<buckets[b], windows[b], store[bucketKey(b)]>>

\* what the calls on key b would return in the current state
Outcomes(b) ==
  CASE kind = "tb" -> <<getStatus(b, now), [c \in Costs |-> limitResult(buckets, b, c, now)]>>
    [] kind = "sw" -> <<slidingResult(b, now)>>
    [] kind = "dist" -> <<distResult(b, storeGet(bucketKey(b), now), now)>>

\* C4: every step of an operation on key a leaves the stored state of every
\* other key b, and what the calls on b would return, unchanged.
C4_KeyIndependence ==
  [][\A a \in Keys : OpOn(a) =>
       \A b \in Keys \ {a} : /\ KeyState(b)' = KeyState(b)
                             /\ Outcomes(b)' = Outcomes(b)]_vars

\* both keys hold different store entries and the last call returned was on
\* one of them
C4_Witness ==
  \E a \in Keys, b \in Keys :
    /\ a # b
    /\ store[bucketKey(a)] # None /\ store[bucketKey(b)] # None
    /\ store[bucketKey(a)].value # store[bucketKey(b)].value
    /\ result.op = "limit" /\ result.key = a /\ result.allowed

\* ------------------------------------------------------------------------
\* C8: fail-open. When store.get or store.set rejects,
\* DistributedRateLimiter.limit(key) does not reject; it resolves with
\* allowed = true.
\* ------------------------------------------------------------------------
C8_FailOpen ==
  [][\A p \in Procs :
       Dist_storeFails(p) => (~result'.threw /\ result'.allowed)]_vars

\* ------------------------------------------------------------------------
\* C9: getStatus(key) leaves the bucket map unchanged for every key: no
\* bucket is created for an unknown key, and tokens and lastRefill of an
\* existing bucket stay as they are even when refill intervals have elapsed.
\* ------------------------------------------------------------------------
C9_StatusDoesNotMutate ==
  [][\A k \in Keys : RateLimiter_getStatus(k) => buckets' = buckets]_vars

\* status was just returned for a stored bucket that is at least one refill
\* interval old, reporting more tokens than are stored
C9_Witness ==
  /\ kind = "tb"
  /\ result.op = "status"
  /\ \E k \in Keys :
       /\ result.key = k
       /\ buckets[k] # None
       /\ now - buckets[k].lastRefill >= config.refillInterval
       /\ result.remaining > buckets[k].tokens

\* ------------------------------------------------------------------------
\* C10: idempotent status. As claimed: status(key) called N times with no
\* limit() call in between returns identical results (allowed, remaining,
\* resetAt) on every call.
\* obs.last is the last status result for the key obs.key, kept while no
\* limit, reset, eviction or destroy touches the key (so also while the
\* clock moves): the result, the clock reading, and whether the call
\* repeated a status call of the same clock reading (n = 2).
\* ------------------------------------------------------------------------
Forget == [obs EXCEPT !.last = None]
StatusOnLimit(k, c) == IF k # obs.key THEN obs ELSE Forget
StatusOnStatus(k) ==
  IF k # obs.key THEN obs
  ELSE [obs EXCEPT !.last =
          [res |-> getStatus(k, now), at |-> now,
           n |-> IF @ # None /\ @.at = now THEN 2 ELSE 1]]
StatusOnReset(k) == IF k # obs.key THEN obs ELSE Forget
StatusOnCleanup == IF cleanup(now)[obs.key] # buckets[obs.key] THEN Forget ELSE obs

InitStatus ==
  /\ InitProg("tb")
  /\ started = 0
  /\ obs = [key |-> Tracked, last |-> None]

NextStatus ==
  TokenBucketRun(StatusOnLimit, StatusOnStatus, StatusOnReset, StatusOnCleanup,
                 Forget, obs)

SpecStatus == InitStatus /\ [][NextStatus]_vars

\* C10 as claimed: a status(key) call that no limit (and no reset, eviction
\* or destroy) separates from the status call before it returns the same
\* result.
C10_IdempotentStatus ==
  [][(RateLimiter_getStatus(obs.key) /\ obs.last # None)
       => result' = obs.last.res]_vars

\* C10 as amended: status(key) called N times at one clock reading, with no
\* limit(key), reset(key), eviction of the key or destroy() in between,
\* returns identical results on every call.
C10_IdempotentStatusAtOneTime ==
  [][(RateLimiter_getStatus(obs.key) /\ obs.last # None /\ obs.last.at = now)
       => result' = obs.last.res]_vars

\* status was repeated at one clock reading on a stored bucket that is at
\* least one refill interval old
C10_Witness ==
  /\ obs.last # None /\ obs.last.n = 2 /\ obs.last.at = now
  /\ buckets[obs.key] # None
  /\ now - buckets[obs.key].lastRefill >= config.refillInterval
  /\ result = obs.last.res
  /\ result.remaining > buckets[obs.key].tokens

\* ------------------------------------------------------------------------
\* C11: monotone refill. For a key and times t1 < t2 with no limit() call
\* for the key in between (reset and housekeeping sweeps may occur), the
\* remaining reported by status(key) at t2 is >= the one reported at t1.
\* obs.last is the last status result for the key obs.key since the last
\* limit() on it, kept through reset, sweeps, destroy and clock advances:
\* its remaining, and whether it reported more than the status call before
\* it (grew).
\* ------------------------------------------------------------------------
RefillOnLimit(k, c) == IF k # obs.key THEN obs ELSE [obs EXCEPT !.last = None]
RefillOnStatus(k) ==
  IF k # obs.key THEN obs
  ELSE [obs EXCEPT !.last =
          [remaining |-> getStatus(k, now).remaining,
           grew |-> @ # None /\ getStatus(k, now).remaining > @.remaining]]
RefillKeep(k) == obs

InitRefill ==
  /\ InitProg("tb")
  /\ started = 0
  /\ obs = [key |-> Tracked, last |-> None]

NextRefill ==
  TokenBucketRun(RefillOnLimit, RefillOnStatus, RefillKeep, obs, obs, obs)

SpecRefill == InitRefill /\ [][NextRefill]_vars

\* C11: a status(key) call that no limit(key) separates from the status call
\* before it reports a remaining at least as large as that call did.
C11_MonotoneRefill ==
  [][(RateLimiter_getStatus(obs.key) /\ obs.last # None)
       => result'.remaining >= obs.last.remaining]_vars

\* a later status call reported more than the one before it, by refill of
\* the stored bucket alone
C11_Witness ==
  /\ obs.last # None /\ obs.last.grew
  /\ buckets[obs.key] # None
  /\ buckets[obs.key].lastRefill < now
  /\ result.op = "status" /\ result.key = obs.key
  /\ result.remaining > buckets[obs.key].tokens

\* ------------------------------------------------------------------------
\* C12: refill amount seen by status. For an existing bucket with stored
\* (tokens, lastRefill), status(key) at time now reports
\* remaining = min(maxTokens,
\*                 tokens + floor((now - lastRefill) / refillInterval) * refillRate).
\* ------------------------------------------------------------------------
C12_StatusRefillAmount ==
  (result.op = "status" /\ buckets[result.key] # None) =>
    LET b == buckets[result.key]
        refill == ((now - b.lastRefill) \div config.refillInterval) * config.refillRate
    IN  result.remaining =
          (IF b.tokens + refill <= config.maxTokens
           THEN b.tokens + refill ELSE config.maxTokens)

\* a bucket drained to 0 reports 2 after 2 intervals at refillRate 1
C12_Witness ==
  /\ result.op = "status" /\ buckets[result.key] # None
  /\ buckets[result.key].tokens = 0
  /\ now - buckets[result.key].lastRefill = 2 * config.refillInterval
  /\ config.refillRate = 1
  /\ result.remaining = 2

\* ------------------------------------------------------------------------
\* C13: conservation under denial. A limit() call that returns
\* allowed = false never decreases the key's remaining capacity, as seen by
\* status or in the stored tokens, window log or store entry.
\* ------------------------------------------------------------------------
\* the step in which a limit(k) call returns a denial
DeniedOn(k) ==
  /\ result'.op = "limit" /\ result'.key = k
  /\ ~result'.threw /\ ~result'.allowed
  /\ \/ \E c \in Costs : RateLimiter_limit(k, c)
     \/ SlidingWindowRateLimiter_limit(k)
     \/ \E p \in Procs :
          calls[p].pc = "get" /\ calls[p].key = k /\ Dist_get(p)

\* the capacity left for key k in the current state
Remaining(k) ==
  CASE kind = "tb" -> getStatus(k, now).remaining
    [] kind = "sw" ->
         config.maxRequests
           - totalRequests(filterEntries(windows[k], now - config.windowSize))
    [] kind = "dist" ->
         distRefill(distLoad(storeGet(bucketKey(k), now), now), now).tokens

\* C13: across every step in which limit(k) returns allowed = false, the
\* capacity left for k does not decrease, and neither do the stored tokens of
\* an existing bucket.
C13_ConservationUnderDenial ==
  [][\A k \in Keys : DeniedOn(k) =>
       /\ Remaining(k)' >= Remaining(k)
       /\ buckets[k] # None => buckets'[k].tokens >= buckets[k].tokens]_vars

\* a denial just returned: by the distributed limiter on an entry holding no
\* token, which is still there
C13_Witness ==
  /\ kind = "dist"
  /\ result.op = "limit" /\ ~result.threw /\ ~result.allowed
  /\ store[bucketKey(result.key)] # None
  /\ JSONparse(store[bucketKey(result.key)].value).tokens = 0
  /\ Remaining(result.key) = 0

\* ------------------------------------------------------------------------
\* C14: reset restores capacity. As claimed: after reset(key) following
\* partial consumption, the next limit(key) call returns
\* remaining = maxTokens.
\* obs.after follows the key obs.key: "reset" once reset(key) has deleted a
\* bucket holding fewer than maxTokens tokens, "next" once the next
\* limit(key, obs.cost) call has returned, "idle" otherwise.
\* ------------------------------------------------------------------------
AfterIdle == [obs EXCEPT !.after = "idle", !.cost = 1]
ResetOnLimit(k, c) ==
  IF k = obs.key /\ obs.after = "reset"
  THEN [obs EXCEPT !.after = "next", !.cost = c]
  ELSE IF k = obs.key \/ obs.after = "next" THEN AfterIdle ELSE obs
ResetOnStatus(k) == IF obs.after = "next" THEN AfterIdle ELSE obs
ResetOnReset(k) ==
  IF k = obs.key /\ buckets[k] # None /\ buckets[k].tokens < config.maxTokens
  THEN [obs EXCEPT !.after = "reset", !.cost = 1]
  ELSE IF obs.after = "next" THEN AfterIdle ELSE obs

InitReset ==
  /\ InitProg("tb")
  /\ started = 0
  /\ obs = [key |-> Tracked, after |-> "idle", cost |-> 1]

NextReset ==
  TokenBucketRun(ResetOnLimit, ResetOnStatus, ResetOnReset,
                 ResetOnStatus(Tracked), ResetOnStatus(Tracked), ResetOnStatus(Tracked))

SpecReset == InitReset /\ [][NextReset]_vars

InitBoundary ==
  /\ InitProg("sw")
  /\ started = 0
  /\ obs = None

NextBoundary ==
  \/ \E k \in Keys :
       /\ SlidingWindowRateLimiter_limit(k)
       /\ obs' = [key |-> k, log |-> windows[k], at |-> now]
       /\ UNCHANGED started
  \/ \E d \in Advances : ClockAdvance(d) /\ obs' = None /\ UNCHANGED started

SpecBoundary == InitBoundary /\ [][NextBoundary]_vars

\* the entries of the log before the call with timestamp in
\* (at - windowSize, at]
CountedBefore ==
  {i \in DOMAIN obs.log :
     /\ obs.log[i].timestamp > obs.at - config.windowSize
     /\ obs.log[i].timestamp <= obs.at}

\* C15: the call is allowed exactly when fewer than maxRequests entries of
\* the log have their timestamp in (now - windowSize, now], and the log the
\* call leaves holds no entry at or before now - windowSize.
C15_WindowBoundary ==
  obs # None =>
    /\ result.allowed <=> Cardinality(CountedBefore) < config.maxRequests
    /\ \A i \in DOMAIN windows[obs.key] :
         windows[obs.key][i].timestamp > obs.at - config.windowSize

\* the log held an entry exactly at now - windowSize that would have filled
\* the window; the call was allowed and the entry is gone
C15_Witness ==
  /\ obs # None
  /\ \E i \in DOMAIN obs.log : obs.log[i].timestamp = obs.at - config.windowSize
  /\ Cardinality(CountedBefore) = config.maxRequests - 1
  /\ Len(obs.log) = config.maxRequests
  /\ result.allowed
  /\ \A i \in DOMAIN windows[obs.key] :
       windows[obs.key][i].timestamp > obs.at - config.windowSize

\* ------------------------------------------------------------------------
\* C16: sliding-window burst. For a fresh key and maxRequests >= 1, the
\* first maxRequests limit(key) calls made in immediate succession are all
\* allowed, the next one is denied, and every denied sliding-window result
\* carries retryAfter > 0.
\* obs[k] counts the calls of a run on k that began with no log stored for
\* k and saw no clock advance (0: no run), up to maxRequests + 1.
\* ------------------------------------------------------------------------
InitWindowBurst ==
  /\ InitProg("sw")
  /\ started = 0
  /\ obs = [k \in Keys |-> 0]

NextWindowBurst ==
  \/ \E k \in Keys :
       /\ SlidingWindowRateLimiter_limit(k)
       /\ obs' = [obs EXCEPT ![k] =
                    IF windows[k] = <<>> THEN 1
                    ELSE IF @ > 0 THEN Min(@ + 1, config.maxRequests + 1)
                    ELSE 0]
       /\ UNCHANGED started
  \/ \E d \in Advances :
       ClockAdvance(d) /\ obs' = [k \in Keys |-> 0] /\ UNCHANGED started

SpecWindowBurst == InitWindowBurst /\ [][NextWindowBurst]_vars

\* C16: call i <= maxRequests of a run on a fresh key is allowed, call
\* maxRequests + 1 is denied, and a denied result, in a run or not, carries a
\* retryAfter above 0.
C16_SlidingWindowBurst ==
  /\ \A k \in Keys :
       (result.op = "limit" /\ result.key = k /\ obs[k] > 0) =>
         (result.allowed <=> obs[k] <= config.maxRequests)
  /\ (result.op = "limit" /\ ~result.allowed) =>
       /\ result.retryAfter # {}
       /\ \A r \in result.retryAfter : r > 0

\* call maxRequests + 1 of a run on the largest window was just denied
C16_Witness ==
  \E k \in Keys :
    /\ config.maxRequests = MaxRequestsBound
    /\ obs[k] = config.maxRequests + 1
    /\ result.op = "limit" /\ result.key = k /\ ~result.allowed
    /\ Len(windows[k]) = config.maxRequests
    /\ windows[k][1].timestamp = now

\* ------------------------------------------------------------------------
\* C17: housekeeping is decision-neutral. For any configuration and any
\* sequence of limit/status calls and clock advances on a RateLimiter, the
\* results returned are the same whether or not housekeeping sweeps run
\* between the calls.
\* The limiter is built with a refillInterval above the idle threshold.
\* obs.ref is the bucket map of a limiter given the same calls and no sweep,
\* obs.res what its last limit call returned.
\* ------------------------------------------------------------------------
SlowConfigs ==
  [maxTokens : 1..MaxTokensBound, refillRate : 1..MaxRateBound,
   refillInterval : SlowRefillIntervals]

InitNeutral ==
  /\ InitWith("tb", SlowConfigs)
  /\ started = 0
  /\ obs = [ref |-> [k \in Keys |-> None], res |-> NoResult]

NextNeutral ==
  \/ \E k \in Keys, c \in Costs :
       /\ RateLimiter_limit(k, c)
       /\ obs' = [ref |-> [obs.ref EXCEPT ![k] = limitBucket(obs.ref, k, c, now)],
                  res |-> limitResult(obs.ref, k, c, now)]
       /\ UNCHANGED started
  \/ \E k \in Keys :
       /\ RateLimiter_getStatus(k)
       /\ obs' = [obs EXCEPT !.res = NoResult]
       /\ UNCHANGED started
  \/ /\ RateLimiter_cleanup
     /\ obs' = [obs EXCEPT !.res = NoResult]
     /\ UNCHANGED started
  \/ \E d \in Advances :
       /\ ClockAdvance(d)
       /\ obs' = [obs EXCEPT !.res = NoResult]
       /\ UNCHANGED started

SpecNeutral == InitNeutral /\ [][NextNeutral]_vars

DestroyKeep(k) == [obs EXCEPT !.just = FALSE]
DestroyOnLimit(k, c) == DestroyKeep(k)
DestroyOnCleanup == [obs EXCEPT !.just = FALSE, !.swept = @ \/ obs.destroyed]
DestroyOnDestroy == [obs EXCEPT !.destroyed = TRUE, !.just = TRUE]

InitDestroy ==
  /\ InitProg("tb")
  /\ started = 0
  /\ obs = [destroyed |-> FALSE, just |-> FALSE, swept |-> FALSE]

NextDestroy ==
  TokenBucketRun(DestroyOnLimit, DestroyKeep, DestroyKeep, DestroyOnCleanup,
                 DestroyOnDestroy, DestroyKeep(Tracked))

SpecDestroy == InitDestroy /\ [][NextDestroy]_vars

\* C18: right after destroy() no key has a bucket, and once destroy() has
\* been called no sweep has run since.
C18_DestroyCancelsHousekeeping ==
  /\ obs.just => \A k \in Keys : buckets[k] = None
  /\ obs.destroyed => ~obs.swept

\* after destroy() a bucket was created again and has grown older than the
\* idle threshold, with the clock past several timer periods and no sweep
C18_Witness ==
  /\ obs.destroyed /\ ~obs.swept
  /\ now >= cleanupInterval.due + CleanupPeriodMs
  /\ \E k \in Keys :
       buckets[k] # None /\ buckets[k].lastRefill < now - IdleThresholdMs

\* ------------------------------------------------------------------------
\* Construction with any integer configuration. None of the three
\* constructors inspects the values it is given: each stores them as they
\* are. The refill interval is kept positive here, since a division by a
\* zero or negative interval yields Infinity or NaN, which integers do not
\* have.
\* ------------------------------------------------------------------------
UncheckedValues == -1 .. 1

UncheckedWindowSizes == {0} \cup WindowSizes

UncheckedConfigs(kd) ==
  CASE kd = "tb" -> [maxTokens : UncheckedValues, refillRate : UncheckedValues,
                     refillInterval : RefillIntervals]
    [] kd = "sw" -> [windowSize : UncheckedWindowSizes,
                     maxRequests : UncheckedValues]
    [] kd = "dist" -> [maxTokens : UncheckedValues, refillRate : UncheckedValues,
                       refillInterval : DistRefillIntervals]

InitUnchecked ==
  /\ \E kd \in {"tb", "sw", "dist"} : InitWith(kd, UncheckedConfigs(kd))
  /\ started = 0
  /\ obs = None

SpecUnchecked == InitUnchecked /\ [][Next]_vars

\* ------------------------------------------------------------------------
\* C19: decisions never raise. For every key and every cost >= 1, limit()
\* on the token-bucket and the sliding-window limiter completes with a
\* RateLimitResult, allowed or denied, and never throws or rejects.
\* ------------------------------------------------------------------------
\* C19: no limit() call of the token-bucket or sliding-window limiter ends
\* by throwing.
C19_DecisionsNeverRaise ==
  (kind \in {"tb", "sw"} /\ result.op = "limit") => ~result.threw

\* ------------------------------------------------------------------------
\* C20: configuration validation. Constructing a limiter with a
\* non-positive maxTokens, refillRate, refillInterval, windowSize or
\* maxRequests fails synchronously; no limiter instance with such a value
\* is ever created.
\* ------------------------------------------------------------------------
PositiveConfig ==
  IF kind = "sw"
  THEN config.windowSize > 0 /\ config.maxRequests > 0
  ELSE config.maxTokens > 0 /\ config.refillRate > 0 /\ config.refillInterval > 0

\* C20: every limiter that exists was constructed from positive values.
C20_ConfigValidation == PositiveConfig

\* ------------------------------------------------------------------------
\* C21: distributed persistence. Every DistributedRateLimiter.limit(key)
\* call, whether it allows or denies, writes the updated bucket to the
\* store under that key with a time-to-live of exactly 2 * refillInterval.
\* ------------------------------------------------------------------------
\* caller p's limit() call returns a RateLimitResult in this step
DistReturns(p) ==
  /\ result'.op = "limit"
  /\ ~result'.threw
  /\ calls[p].pc # "idle"
  /\ calls'[p].pc = "idle"

\* the bucket limit() holds when it returns: loaded, refilled and, when the
\* request is allowed, one token taken
distUpdated(data, t) ==
  LET b == distRefill(distLoad(data, t), t)
  IN  IF distHasToken(b) THEN TokenBucket(b.tokens - 1, b.lastRefill) ELSE b

\* what caller p's call read from the store: kept in calls[p].read on the
\* consume branch, read in this very step on the denial branch
DistRead(p) ==
  IF calls[p].pc = "set" THEN calls[p].read
  ELSE storeGet(bucketKey(calls[p].key), now)

\* C21: when a limit(key) call returns, the store holds the call's updated
\* bucket under the key, expiring 2 * refillInterval from now.
C21_DistributedPersistence ==
  [][\A p \in Procs :
       DistReturns(p) =>
         store'[bucketKey(calls[p].key)] =
           [value |-> JSONstringify(distUpdated(DistRead(p), calls[p].now)),
            expiresAt |-> now + 2 * config.refillInterval]]_vars

\* ------------------------------------------------------------------------
\* C22: result shape. Every RateLimitResult returned by limit() or
\* getStatus() of any limiter has remaining an integer >= 0, and retryAfter
\* is present only when allowed = false.
\* ------------------------------------------------------------------------
\* C22: a returned result has a natural number as remaining and carries
\* retryAfter only on a denial.
C22_ResultShape ==
  (result.op \in {"limit", "status"} /\ ~result.threw) =>
    /\ result.remaining \in Nat
    /\ result.retryAfter # NoRetry => ~result.allowed

\* the distributed limiter hands out the last token of a bucket: allowed,
\* nothing remaining, no retryAfter
C22_Witness ==
  /\ kind = "dist"
  /\ result.op = "limit" /\ ~result.threw
  /\ result.allowed /\ result.remaining = 0 /\ result.retryAfter = NoRetry
  /\ config.maxTokens > 1

\* ------------------------------------------------------------------------
\* createRateLimitMiddleware(limiter): the handler run for one request
\* ------------------------------------------------------------------------
\* Request: ip, and user as a set of at most one id (user?: {id})
Requests == [ip : Keys, user : {{}} \cup {{id} : id \in Keys \cup {""}}]

\* req.user?.id || req.ip
requestKey(req) ==
  IF \E id \in req.user : id # "" THEN CHOOSE id \in req.user : TRUE ELSE req.ip

\* what the handler did for one request: the number of next() calls and the
\* responses sent through res.status(code).json(body)
Handled(n, sent) == [next |-> n, sent |-> sent]

\* the handler without the `return` after the 429 response
middleware_noReturn(r) ==
  IF r.threw THEN Handled(1, <<>>)
  ELSE IF ~r.allowed
       THEN Handled(1, <<[status |-> 429, retryAfter |-> r.retryAfter,
                          resetAt |-> r.resetAt]>>)
       ELSE Handled(1, <<>>)

\* the handler body, given the outcome r of `await limiter.limit(key)`:
\* a rejection goes to the catch block, which calls next(); a denial sends
\* the 429 response and returns; otherwise next() is called
middleware(r) ==
  IF r.threw THEN Handled(1, <<>>)
  ELSE IF ~r.allowed
       THEN Handled(0, <<[status |-> 429, retryAfter |-> r.retryAfter,
                          resetAt |-> r.resetAt]>>)
       ELSE Handled(1, <<>>)

\* limit() as the source has it: the placeholder body throws, so the
\* promise rejects and no state changes
RateLimiter_limit_placeholder(k) ==
  /\ kind = "tb"
  /\ result' = Threw(k)
  /\ UNCHANGED <<kind, config, now, steps, buckets, cleanupInterval, windows,
                 store, calls>>

\* obs holds the request last handled and what the handler did for it
InitMiddleware ==
  /\ InitProg("tb")
  /\ started = 0
  /\ obs = None

NextMiddleware ==
  \/ \E req \in Requests :
       /\ RateLimiter_limit(requestKey(req), 1)
       /\ obs' = [req |-> req, did |-> middleware(result')]
       /\ UNCHANGED started
  \/ \E req \in Requests :
       /\ RateLimiter_limit_placeholder(requestKey(req))
       /\ obs' = [req |-> req, did |-> middleware(result')]
       /\ UNCHANGED started
  \/ \E k \in Keys, c \in Costs :
       RateLimiter_limit(k, c) /\ obs' = None /\ UNCHANGED started
  \/ RateLimiter_cleanup /\ obs' = None /\ UNCHANGED started
  \/ \E d \in Advances : ClockAdvance(d) /\ obs' = None /\ UNCHANGED started

SpecMiddleware == InitMiddleware /\ [][NextMiddleware]_vars

C23_WitnessFailOpen ==
  obs # None /\ result.threw /\ obs.did.next = 1

\* ------------------------------------------------------------------------
\* C24: refill step. With elapsed = now - lastRefill and
\* n = floor(elapsed / refillInterval), the refill leaves both tokens and
\* lastRefill unchanged when n = 0 (partial intervals are not credited), and
\* otherwise sets tokens = min(maxTokens, tokens + n * refillRate) and
\* lastRefill = now.
\* ------------------------------------------------------------------------
\* the refill as stated: nothing for n = 0, the credit otherwise
RefillIfNonzero(bucket, t) ==
  LET n == FloorDiv(t - bucket.lastRefill, config.refillInterval)
  IN  IF n = 0 THEN bucket
      ELSE TokenBucket(Min(config.maxTokens, bucket.tokens + n * config.refillRate), t)

\* the refill crediting only n > 0: nothing for n <= 0
RefillIfPositive(bucket, t) ==
  LET n == FloorDiv(t - bucket.lastRefill, config.refillInterval)
  IN  IF n <= 0 THEN bucket
      ELSE TokenBucket(Min(config.maxTokens, bucket.tokens + n * config.refillRate), t)

\* every refill a step performs agrees with Step: the tokens getStatus
\* reports, the bucket limit() leaves in the map, and the reset time and the
\* stored bucket of a distributed limit()
RefillAgrees(Step(_, _)) ==
  /\ (result'.op = "status" /\ kind = "tb" /\ buckets[result'.key] # None) =>
       result'.remaining = Step(buckets[result'.key], now).tokens
  /\ (result'.op = "limit" /\ kind = "tb") =>
       LET k == result'.key
           b == Step(getOrCreate(buckets, k, now), now)
       IN  /\ buckets'[k].lastRefill = b.lastRefill
           /\ IF result'.allowed
              THEN \E c \in Costs : buckets'[k].tokens = b.tokens - c
              ELSE buckets'[k] = b
  /\ \A p \in Procs :
       DistReturns(p) =>
         LET c == calls[p]
             b == Step(distLoad(DistRead(p), c.now), c.now)
         IN  /\ result'.resetAt = b.lastRefill + config.refillInterval
             /\ result'.allowed =>
                  store'[bucketKey(c.key)].value =
                    JSONstringify(TokenBucket(b.tokens - 1, b.lastRefill))

\* C24: every refill leaves the bucket unchanged when n = 0 and otherwise
\* sets tokens = min(maxTokens, tokens + n * refillRate), lastRefill = now.
C24_RefillStep == [][RefillAgrees(RefillIfNonzero)]_vars

\* C24, amended: every refill leaves the bucket unchanged when n <= 0 and
\* sets tokens = min(maxTokens, tokens + n * refillRate), lastRefill = now
\* when n > 0.
C24_RefillStepPositive == [][RefillAgrees(RefillIfPositive)]_vars

\* a distributed limit() that took its time before the bucket it read was
\* last refilled (n < 0) is about to store its bucket
C24_Witness ==
  \E p \in Procs :
    /\ calls[p].pc = "set"
    /\ calls[p].read # None
    /\ JSONparse(calls[p].read).lastRefill > calls[p].now

Decided(k, b0, t, c) ==
  LET elapsed == t - b0.lastRefill
      b == RefillIfPositive(b0, t)
  IN  IF b.tokens >= c
      THEN Result("limit", k, TRUE, b.tokens - c,
                  b.lastRefill + config.refillInterval, NoRetry)
      ELSE Result("limit", k, FALSE, 0, b.lastRefill + config.refillInterval,
                  {CeilDiv(config.refillInterval - elapsed, MsPerSecond)})

\* the bucket the decision leaves: cost c taken from the refilled bucket, or
\* the refilled bucket untouched
DecidedBucket(b0, t, c) ==
  LET b == RefillIfPositive(b0, t)
  IN  IF b.tokens >= c THEN TokenBucket(b.tokens - c, b.lastRefill) ELSE b

SurvivingTimestamps ==
  {obs.log[i].timestamp : i \in CountedBefore}

\* the requests those entries count
SurvivingTotal == totalRequests(filterEntries(obs.log, obs.at - config.windowSize))

\* C27: a call made with maxRequests or more requests in the window is
\* denied with remaining 0, resetAt the smallest surviving timestamp plus
\* windowSize, and retryAfter the seconds from now to resetAt, rounded up.
C27_SlidingWindowDenial ==
  (obs # None /\ SurvivingTotal >= config.maxRequests) =>
    LET oldest == CHOOSE m \in SurvivingTimestamps :
                    \A x \in SurvivingTimestamps : m <= x
    IN  /\ result.op = "limit" /\ result.key = obs.key /\ ~result.threw
        /\ ~result.allowed
        /\ result.remaining = 0
        /\ result.resetAt = oldest + config.windowSize
        /\ result.retryAfter =
             {CeilDiv(result.resetAt - obs.at, MsPerSecond)}

\* a denial on a log whose surviving entries were made at different times,
\* part of the window of the oldest having passed
C27_Witness ==
  /\ obs # None
  /\ ~result.allowed /\ result.op = "limit"
  /\ Cardinality(SurvivingTimestamps) > 1
  /\ \E r \in result.retryAfter : r > 0 /\ r * MsPerSecond < config.windowSize

\* ------------------------------------------------------------------------
\* C28: sliding-window allow. When the in-window total < maxRequests,
\* limit(key) appends exactly one entry {timestamp: now, count: 1} to the
\* key's log, stores the pruned log, and returns allowed = true with
\* remaining = maxRequests - total - 1.
\* Checked on the runs of SpecBoundary.
\* ------------------------------------------------------------------------
\* the log before the call without the entries at or before the window start
PrunedBefore ==
  SelectSeq(obs.log, LAMBDA e : e.timestamp > obs.at - config.windowSize)

\* C28: a call made with fewer than maxRequests requests in the window is
\* allowed with remaining = maxRequests - total - 1, and the log stored for
\* the key is the pruned log followed by one entry for this call.
C28_SlidingWindowAllow ==
  (obs # None /\ SurvivingTotal < config.maxRequests) =>
    /\ result.op = "limit" /\ result.key = obs.key /\ ~result.threw
    /\ result.allowed
    /\ result.remaining = config.maxRequests - SurvivingTotal - 1
    /\ windows[obs.key] =
         Append(PrunedBefore, [timestamp |-> obs.at, count |-> 1])

\* an allowed call whose log lost an old entry to the pruning and kept a
\* newer one
C28_Witness ==
  /\ obs # None
  /\ result.op = "limit" /\ result.allowed
  /\ Len(obs.log) > Len(PrunedBefore)
  /\ Len(PrunedBefore) >= 1

\* ------------------------------------------------------------------------
\* C29: eviction rule. A housekeeping sweep runs every 60 s while the
\* limiter is not destroyed, and each sweep removes exactly the buckets
\* whose lastRefill is more than 5 minutes before the sweep time, leaving
\* every other bucket's tokens and lastRefill unchanged.
\* Checked on the runs of SpecDestroy, which call destroy() as well.
\* ------------------------------------------------------------------------
\* the step is a sweep: only cleanup() moves the timer's next due time
Sweeps == cleanupInterval'.due # cleanupInterval.due

\* C29: a sweep runs only on a limiter not destroyed, 60 s after the
\* previous one (the first 60 s after construction), time never passes a due
\* sweep, and the sweep deletes the buckets with lastRefill more than 5
\* minutes before now and leaves the others as they are.
C29_EvictionRule ==
  [][/\ Sweeps =>
          /\ cleanupInterval.armed
          /\ now = cleanupInterval.due
          /\ now % (60 * MsPerSecond) = 0
          /\ cleanupInterval'.due = now + 60 * MsPerSecond
          /\ \A k \in Keys :
               buckets'[k] =
                 IF /\ buckets[k] # None
                    /\ now - buckets[k].lastRefill > 5 * 60 * MsPerSecond
                 THEN None ELSE buckets[k]
     /\ (now' # now /\ cleanupInterval.armed) => now' <= cleanupInterval.due
    ]_vars

\* a sweep has just run and kept a bucket last refilled exactly 5 minutes
\* before it
C29_Witness ==
  /\ cleanupInterval.armed
  /\ cleanupInterval.due = now + CleanupPeriodMs
  /\ result = NoResult
  /\ \E k \in Keys :
       buckets[k] # None /\ buckets[k].lastRefill = now - IdleThresholdMs

\* ------------------------------------------------------------------------
\* C30: lastRefill monotonicity. With a non-decreasing clock, the
\* lastRefill of a given bucket never decreases across any sequence of
\* limit() calls on that bucket (from creation until it is deleted by
\* reset, eviction or expiry of its time-to-live).
\* ------------------------------------------------------------------------
\* C30: a step that keeps a key's bucket in the map, or overwrites a store
\* entry whose time-to-live has not run out, does not lower its lastRefill.
C30_LastRefillMonotone ==
  [][/\ \A k \in Keys :
          (buckets[k] # None /\ buckets'[k] # None) =>
            buckets'[k].lastRefill >= buckets[k].lastRefill
     /\ \A k \in Keys :
          LET sk == bucketKey(k)
          IN  (store'[sk] # store[sk] /\ store[sk] # None
                 /\ now < store[sk].expiresAt) =>
                JSONparse(store'[sk].value).lastRefill >=
                  JSONparse(store[sk].value).lastRefill
    ]_vars

\* ------------------------------------------------------------------------
\* C31: unknown key status. getStatus on a key with no stored bucket raises
\* no error and returns allowed = true and remaining = maxTokens, the
\* capacity a fresh bucket would have.
\* ------------------------------------------------------------------------
\* C31: a getStatus result for a key without a bucket (getStatus leaves the
\* map as it was) is not an error, is allowed and reports maxTokens.
C31_UnknownKeyStatus ==
  (result.op = "status" /\ buckets[result.key] = None) =>
    /\ ~result.threw
    /\ result.allowed
    /\ result.remaining = config.maxTokens
    /\ result.remaining = getOrCreate(buckets, result.key, now).tokens

\* getStatus on a key that has no bucket while another key has a drained
\* one, some time after construction
C31_Witness ==
  /\ result.op = "status"
  /\ buckets[result.key] = None
  /\ now > 0
  /\ \E k \in Keys : buckets[k] # None /\ buckets[k].tokens = 0

\* ------------------------------------------------------------------------
\* C32: the distributed limiter is stateless. The result of
\* DistributedRateLimiter.limit(key) depends only on the store entry for
\* that key, the configuration and the current time, so sequential calls
\* spread over two limiter instances that share one store return the same
\* results as the same calls made on a single instance.
\* Caller p1 uses one instance and caller p2 another, built with the same
\* configuration over the one store; a call starts only when none is in
\* flight. obs.store is the store of a single instance given the same calls
\* at the same times, obs.res its last result, and obs.via the instances
\* that have served each key.
\* ------------------------------------------------------------------------
\* store.get on the store st of the single instance
RefGet(st, sk, t) ==
  IF st[sk] # None /\ t < st[sk].expiresAt THEN st[sk].value ELSE None

\* the store of the single instance after its limit(k) at time t
RefStore(st, k, t) ==
  LET data == RefGet(st, bucketKey(k), t)
  IN  IF distResult(k, data, t).allowed
      THEN [st EXCEPT ![bucketKey(k)] =
              [value |-> JSONstringify(distConsumed(data, t)),
               expiresAt |-> t + bucketTtl]]
      ELSE st

InitInstances ==
  /\ InitProg("dist")
  /\ started = 0
  /\ obs = [store |-> [sk \in StoreKeys |-> None], res |-> NoResult,
            via |-> [k \in Keys |-> {}]]

NextInstances ==
  \/ \E p \in Procs, k \in Keys :
       /\ \A q \in Procs : calls[q].pc = "idle"
       /\ started < MaxCalls
       /\ Dist_call(p, k)
       /\ started' = started + 1
       /\ obs' = [store |-> RefStore(obs.store, k, now),
                  res |-> distResult(k, RefGet(obs.store, bucketKey(k), now), now),
                  via |-> [obs.via EXCEPT ![k] = @ \cup {p}]]
  \/ \E p \in Procs : Dist_get(p) /\ UNCHANGED aux
  \/ \E p \in Procs : Dist_set(p) /\ UNCHANGED aux
  \/ \E d \in Advances :
       /\ \A q \in Procs : calls[q].pc = "idle"
       /\ ClockAdvance(d)
       /\ obs' = [obs EXCEPT !.res = NoResult]
       /\ UNCHANGED started

SpecInstances == InitInstances /\ [][NextInstances]_vars

RateOnLimit(k, c) ==
  LET spent == IF limitResult(buckets, k, c, now).allowed THEN c ELSE 0
  IN  IF k # Tracked THEN obs
      ELSE IF buckets[k] = None \/ obs = None THEN [t0 |-> now, used |-> spent]
      ELSE [obs EXCEPT !.used = @ + spent]
RateOnStatus(k) == obs
RateOnReset(k) == IF k = Tracked THEN None ELSE obs
RateOnCleanup == IF cleanup(now)[Tracked] = None THEN None ELSE obs

InitRate ==
  /\ InitProg("tb")
  /\ started = 0
  /\ obs = None

NextRate ==
  TokenBucketRun(RateOnLimit, RateOnStatus, RateOnReset, RateOnCleanup, None, obs)

SpecRate == InitRate /\ [][NextRate]_vars

RetryAfterCall(k, c, t, res) ==
  IF k # Tracked THEN [obs EXCEPT !.call = None]
  ELSE [deny |-> IF res.allowed THEN None
                 ELSE IF obs.deny # None THEN obs.deny
                 ELSE [cost |-> c, at |-> t,
                       r |-> CHOOSE r \in res.retryAfter : TRUE],
        call |-> [cost |-> c,
                  due |-> /\ obs.deny # None
                          /\ obs.deny.cost = c
                          /\ t >= obs.deny.at + obs.deny.r * MsPerSecond]]

RetryOnLimit(k, c) == RetryAfterCall(k, c, now, limitResult(buckets, k, c, now))
RetryKeep(k) == [obs EXCEPT !.call = None]

InitRetry ==
  /\ \E kd \in {"tb", "dist"} : InitProg(kd)
  /\ started = 0
  /\ obs = [deny |-> None, call |-> None]

NextRetry ==
  \/ \E k \in Keys, c \in Costs :
       RateLimiter_limit(k, c) /\ obs' = RetryOnLimit(k, c) /\ UNCHANGED started
  \/ \E k \in Keys :
       RateLimiter_reset(k) /\ obs' = RetryKeep(k) /\ UNCHANGED started
  \/ RateLimiter_cleanup /\ obs' = RetryKeep(Tracked) /\ UNCHANGED started
  \/ \E d \in Advances :
       ClockAdvance(d) /\ obs' = RetryKeep(Tracked) /\ UNCHANGED started
  \/ \E k \in Keys :
       Dist_call("p1", k) /\ obs' = RetryKeep(k) /\ UNCHANGED started
  \/ /\ Dist_get("p1")
     /\ obs' = IF calls'["p1"].pc = "idle"
               THEN RetryAfterCall(calls["p1"].key, 1, calls["p1"].now, result')
               ELSE obs
     /\ UNCHANGED started
  \/ /\ Dist_set("p1")
     /\ obs' = RetryAfterCall(calls["p1"].key, 1, calls["p1"].now, result')
     /\ UNCHANGED started

SpecRetry == InitRetry /\ [][NextRetry]_vars

InitWindowRetry ==
  /\ InitProg("sw")
  /\ started = 0
  /\ obs = [deny |-> None, call |-> None]

NextWindowRetry ==
  \/ \E k \in Keys :
       /\ SlidingWindowRateLimiter_limit(k)
       /\ obs' = RetryAfterCall(k, 1, now, result')
       /\ UNCHANGED started
  \/ \E d \in Advances :
       ClockAdvance(d) /\ obs' = RetryKeep(Tracked) /\ UNCHANGED started

SpecWindowRetry == InitWindowRetry /\ [][NextWindowRetry]_vars

\* C35: a limit call on the tracked key made once an earlier denial has come
\* due, with no allowed call for the key since that denial, is allowed.
C35_WindowRetryAfterSufficient ==
  (obs.call # None /\ obs.call.due) => result.allowed

\* a full window was denied with a retryAfter shorter than the window, and
\* the call made after it came due was allowed while a later entry of the
\* log was still counted
C35_Witness ==
  /\ obs.call # None /\ obs.call.due
  /\ result.op = "limit" /\ result.key = Tracked /\ result.allowed
  /\ config.maxRequests = MaxRequestsBound
  /\ result.remaining = 0

C39_WindowLogInvariant ==
  kind = "sw" =>
    \A k \in Keys :
      /\ Len(windows[k]) <= config.maxRequests
      /\ \A i \in DOMAIN windows[k] :
           /\ windows[k][i].count = 1
           /\ i > 1 => windows[k][i - 1].timestamp <= windows[k][i].timestamp

\* an allowed call made after time 0 has just left a full log whose entries
\* were made at different times, the newest at the time of the call
C39_Witness ==
  /\ kind = "sw" /\ result.op = "limit" /\ result.allowed
  /\ config.maxRequests = MaxRequestsBound
  /\ Len(windows[result.key]) = config.maxRequests
  /\ windows[result.key][1].timestamp > 0
  /\ windows[result.key][1].timestamp < windows[result.key][Len(windows[result.key])].timestamp
  /\ windows[result.key][Len(windows[result.key])].timestamp = now

====
